---- MODULE Spec2Model ----
(***************************************************************************)
(* State-machine model of the zwave-js-server session layer:               *)
(*   Client            (src/src/lib/server.ts, 35-254)                     *)
(*   ClientsController (src/src/lib/server.ts, 255-355)                    *)
(*   ControllerMessageHandler / processInclusionOptions                    *)
(*                     (src/src/lib/controller/message_handler.ts)         *)
(* The driver's controller is the environment: it settles the operations   *)
(* it was asked to run and calls the userCallbacks it was handed.          *)
(* One action of the model is one macrotask of the event loop (a socket    *)
(* event, a timer, a driver call-back) or one promise reaction (microtask);*)
(* macrotasks run only when the microtask queue is empty.                  *)
(***************************************************************************)
EXTENDS Integers, Sequences, FiniteSets, TLC

\* ------------------------------------------------------------------ bounds
MaxMsgs == 2
MaxDeferreds == 2
MaxEvents == 1

\* ------------------------------------------------- program constants
minSchemaVersion == 0
maxSchemaVersion == 8

Clients == {1, 2}
None == 0
SchemaInputs == {minSchemaVersion - 1, minSchemaVersion, maxSchemaVersion,
                 maxSchemaVersion + 1}
AnswerValues == {1, 2}
Outcomes == {"ok", "zwave"}     \* an awaited operation resolves, or rejects
                               \* with a ZWaveError
InclusionModes == {0, 1}  \* 1: options.strategy is Default or Security_S2;
                         \* 0: any other strategy, or a legacy message

VARIABLES
  conn,            \* socket.readyState per connection: none/open/closing/closed
  commands,        \* per connection, the number of commands received so far
  sent,            \* the frames the current step handed to socket.send, in order
  firstFrame,      \* per connection, the type of the first frame ever sent on it
  versionFrames,   \* per connection, the number of version frames sent on it
  results,         \* per connection and messageId, the number of result frames sent
  schemaVersion,   \* Client.schemaVersion
  receiveEvents,   \* Client.receiveEvents
  receiveLogs,     \* Client.receiveLogs
  clients,         \* ClientsController.clients
  pingInterval,    \* ClientsController.pingInterval is set
  eventForwarder,  \* ClientsController.eventForwarder is set
  cleanupScheduled,\* ClientsController.cleanupScheduled
  serverTransport, \* LoggingEventForwarder.serverTransport is set
  grantSecurityClassesPromise,   \* ClientsController field: None or a deferred
  validateDSKAndEnterPinPromise, \* ClientsController field: None or a deferred
  deferreds,       \* the deferred promises created so far
  ops,             \* the controller operations in progress
  microtasks,      \* queued promise reactions
  emitted,         \* number of controller events emitted
  outstandingPing, \* Client._outstandingPing
  pinged,          \* the sockets the current step called socket.ping() on
  failed,          \* the sessions whose socket.send threw in the current step
  escaped,         \* the current step threw back into the driver that called it
  checksSincePong, \* per connection, checkAlive calls since its last pong (0..2)
  proc,            \* the server process: bin/server.ts
  cleanupTimers,   \* pending setTimeout callbacks for cleanupClients
  pingTimers,      \* running setInterval timers of addSocket
  subscriptions,   \* calls of EventForwarder.start so far
  logging          \* the driver's log config and the forwarder's transport

vars == <<conn, commands, sent, firstFrame, versionFrames, results,
          schemaVersion, receiveEvents, receiveLogs,
          clients, pingInterval, eventForwarder, cleanupScheduled,
          serverTransport, grantSecurityClassesPromise,
          validateDSKAndEnterPinPromise, deferreds, ops, microtasks, emitted,
          outstandingPing, pinged, failed, escaped, checksSincePong,
          proc, cleanupTimers, pingTimers, subscriptions, logging>>

sessionVars == <<conn, schemaVersion, receiveEvents, receiveLogs>>
registryVars == <<clients, pingInterval, eventForwarder, cleanupScheduled,
                  serverTransport>>
channelVars == <<grantSecurityClassesPromise, validateDSKAndEnterPinPromise>>
probeVars == <<outstandingPing, checksSincePong>>
resourceVars == <<cleanupTimers, pingTimers, subscriptions, logging>>

\* ------------------------------------------------------------------ frames
Frame(type, messageId, success, errorCode, phase, event) ==
  [type |-> type, messageId |-> messageId, success |-> success,
   errorCode |-> errorCode, phase |-> phase, event |-> event,
   to |-> None, delivered |-> TRUE]

VersionFrame == Frame("version", 0, TRUE, "", "", "")
ResultSuccess(messageId, what) == Frame("result", messageId, TRUE, "", what, "")
ResultError(messageId, errorCode, phase) ==
  Frame("result", messageId, FALSE, errorCode, phase, "")
ResultZWaveError(messageId) ==
  Frame("result", messageId, FALSE, "zwave_error", "", "")
EventFrame(event) == Frame("event", 0, TRUE, "", "", event)

\* Client.isConnected
isConnected(c) == conn[c] = "open"

\* Client.sendData: the frame is handed to socket.send; ws transmits it only
\* while the socket is OPEN.
sendData(c, frame) == [frame EXCEPT !.to = c, !.delivered = isConnected(c)]

\* What the frames of this step add to the record of each connection.
FramesTo(c) == SelectSeq(sent', LAMBDA f : f.to = c)
ResultsFor(c, i) ==
  Len(SelectSeq(sent', LAMBDA f : f.to = c /\ f.type = "result"
                                           /\ f.messageId = i))
Record ==
  /\ firstFrame' = [c \in Clients |->
        IF firstFrame[c] = "" /\ FramesTo(c) # <<>>
        THEN FramesTo(c)[1].type ELSE firstFrame[c]]
  /\ versionFrames' = [c \in Clients |->
        versionFrames[c]
          + Len(SelectSeq(sent', LAMBDA f : f.to = c /\ f.type = "version"))]
  /\ results' = [c \in Clients |-> [i \in 1..commands'[c] |->
        (IF i <= commands[c] THEN results[c][i] ELSE 0) + ResultsFor(c, i)]]

\* The step hands these frames to socket.send, in this order, calls
\* socket.ping() on these sockets, has socket.send throw for these sessions,
\* and does or does not end with an exception thrown into its caller.
SendsAnd(frames, pings, throwing, threw) ==
  /\ sent' = frames
  /\ pinged' = pings
  /\ failed' = throwing
  /\ escaped' = threw
  /\ Record

\* The step hands these frames to socket.send, in this order.
Sends(frames) == SendsAnd(frames, <<>>, {}, FALSE)
Silent == Sends(<<>>)

\* The catch block of Client.receiveMessage: the failure value to a result.
\* err is <<kind, detail>>.
CatchFrame(messageId, err) ==
  IF err[1] = "zwave" THEN ResultZWaveError(messageId)
  ELSE IF err[1] = "other" THEN ResultError(messageId, "unknown_error", "")
  ELSE ResultError(messageId, err[1], err[2])

\* socket.close(): an OPEN socket starts closing; otherwise nothing happens.
socketClose(cn, c) ==
  IF cn[c] = "open" THEN [cn EXCEPT ![c] = "closing"] ELSE cn

RECURSIVE Sum(_, _)
Sum(f, S) ==
  IF S = {} THEN 0
  ELSE LET x == CHOOSE y \in S : TRUE IN f[x] + Sum(f, S \ {x})

\* ------------------------------------------------------------ resources
\* The driver's log config as far as the forwarder goes: its level, the
\* server's transports in its transports list, the forwarder's own
\* serverTransport and the number of transports created so far.
LogLevels == {"info", "debug"}
NoSink == [id |-> 0, level |-> ""]
LoggingStart ==
  [level |-> "info", transports |-> {}, sink |-> NoSink, created |-> 0]

\* LoggingEventForwarder.start: a new transport at the driver's current level
\* is pushed onto the transports list.
start(l) ==
  LET new == [id |-> l.created + 1, level |-> l.level]
  IN [l EXCEPT !.sink = new, !.transports = @ \cup {new},
               !.created = @ + 1]

\* A stop that forgets the transport without taking it off the list.
stopKeepsTransport(l) == [l EXCEPT !.sink = NoSink]

\* LoggingEventForwarder.stop: the forwarder's transport is filtered out of the
\* list and forgotten.
stop(l) == [l EXCEPT !.transports = @ \ {l.sink}, !.sink = NoSink]

\* LoggingEventForwarder.restartIfNeeded
restartIfNeeded(l) ==
  IF l.sink # NoSink /\ l.sink.level # l.level THEN start(stop(l)) ELSE l

\* The log config after a step that started the forwarder (serverTransport
\* became set), stopped it, or did neither.
LoggingAfter ==
  IF serverTransport' /\ ~serverTransport THEN start(logging)
  ELSE IF serverTransport /\ ~serverTransport' THEN stop(logging)
  ELSE logging

\* An addSocket that sets the interval for every socket.
startPingIntervalAlways(set, n) == n + 1

\* addSocket: the ping timers running after if (pingInterval === undefined)
\* setInterval(...), and the forwarder subscriptions after
\* if (eventForwarder === undefined) ... start().
startPingInterval(set, n) == IF set THEN n ELSE n + 1
startEventForwarder(set, n) == IF set THEN n ELSE n + 1

\* disconnect: if (pingInterval !== undefined) clearInterval(pingInterval).
clearPingInterval(set, n) == IF set THEN n - 1 ELSE n

\* A scheduleClientCleanup that sets a timeout at every call.
setCleanupTimeoutAlways(scheduled, n) == n + 1

\* scheduleClientCleanup: the pending timeouts after the call.
setCleanupTimeout(scheduled, n) == IF scheduled THEN n ELSE n + 1

\* ------------------------------------------------------------ microtasks
ResultTask(c, frame) ==
  [kind |-> "result", c |-> c, frame |-> frame, ch |-> "", d |-> None]
FinallyTask(ch, d) ==
  [kind |-> "finally", c |-> None, frame |-> VersionFrame, ch |-> ch, d |-> d]

Idle == microtasks = <<>>

\* One more checkAlive call without a pong; two are all that matter.
Missed(n) == IF n < 2 THEN n + 1 ELSE 2

\* ------------------------------------------------------------ the process
\* bin/server.ts after the driver was constructed: main awaits driver.start()
\* (closing, handleShutdown and the signal handlers come after it), and no
\* server exists. fatal: the driver has emitted Driver_Failed. code: the
\* argument of the handleShutdown call that began the teardown. how: the way
\* the process ended.
ProcessStart ==
  [main |-> "starting", server |-> "none", driver |-> "up",
   closing |-> FALSE, fatal |-> FALSE, code |-> "",
   exit |-> "running", exitCode |-> "", how |-> ""]

Init ==
  /\ conn = [c \in Clients |-> "none"]
  /\ commands = [c \in Clients |-> 0]
  /\ sent = <<>>
  /\ firstFrame = [c \in Clients |-> ""]
  /\ versionFrames = [c \in Clients |-> 0]
  /\ results = [c \in Clients |-> <<>>]
  /\ schemaVersion = [c \in Clients |-> minSchemaVersion]
  /\ receiveEvents = [c \in Clients |-> FALSE]
  /\ receiveLogs = [c \in Clients |-> FALSE]
  /\ clients = <<>>
  /\ pingInterval = FALSE
  /\ eventForwarder = FALSE
  /\ cleanupScheduled = FALSE
  /\ serverTransport = FALSE
  /\ grantSecurityClassesPromise = None
  /\ validateDSKAndEnterPinPromise = None
  /\ deferreds = <<>>
  /\ ops = {}
  /\ microtasks = <<>>
  /\ emitted = 0
  /\ outstandingPing = [c \in Clients |-> FALSE]
  /\ pinged = <<>>
  /\ failed = {}
  /\ escaped = FALSE
  /\ checksSincePong = [c \in Clients |-> 0]
  /\ proc = ProcessStart
  /\ cleanupTimers = 0
  /\ pingTimers = 0
  /\ subscriptions = 0
  /\ logging = LoggingStart

\* sendVersion with the call left out.
sendVersionOmitted(c) == <<>>

\* Client.sendVersion, called on a socket that has just connected.
sendVersion(c) == <<[VersionFrame EXCEPT !.to = c]>>

\* ------------------------------------------------- ClientsController
\* ClientsController.addSocket
AddSocket(c) ==
  /\ Idle
  /\ conn[c] = "none"
  /\ \A b \in Clients : b < c => conn[b] # "none"
  /\ conn' = [conn EXCEPT ![c] = "open"]
  /\ clients' = Append(clients, c)
  /\ pingInterval' = TRUE
  /\ eventForwarder' = TRUE
  /\ UNCHANGED <<commands, schemaVersion, receiveEvents, receiveLogs,
                 cleanupScheduled, serverTransport, channelVars, deferreds,
                 ops, microtasks, emitted>>
  /\ UNCHANGED <<probeVars, proc>>
  /\ pingTimers' = startPingInterval(pingInterval, pingTimers)
  /\ subscriptions' = startEventForwarder(eventForwarder, subscriptions)
  /\ UNCHANGED <<cleanupTimers, logging>>
  /\ Sends(sendVersion(c))

\* ClientsController.scheduleClientCleanup: the value of cleanupScheduled after
\* the call (a timer for cleanupClients is pending exactly while it is TRUE).
scheduleClientCleanup(scheduled) == TRUE

\* The socket's close event (the peer went away, or a close started by the
\* server completed): the close listener of addSocket runs.
SocketClosed(c) ==
  /\ Idle
  /\ conn[c] \in {"open", "closing"}
  /\ conn' = [conn EXCEPT ![c] = "closed"]
  /\ cleanupScheduled' = scheduleClientCleanup(cleanupScheduled)
  /\ UNCHANGED <<commands, schemaVersion, receiveEvents, receiveLogs,
                 clients, pingInterval, eventForwarder, serverTransport,
                 channelVars, deferreds, ops, microtasks, emitted>>
  /\ UNCHANGED <<probeVars, proc>>
  /\ cleanupTimers' = setCleanupTimeout(cleanupScheduled, cleanupTimers)
  /\ UNCHANGED <<pingTimers, subscriptions, logging>>
  /\ Silent

\* ClientsController.cleanupLoggingEventForwarder: serverTransport afterwards.
cleanupLoggingEventForwarder(cls, started) ==
  IF (\A i \in DOMAIN cls : ~receiveLogs[cls[i]]) /\ started
  THEN FALSE ELSE started

\* A sweep that gives up the pending exchanges along with the sessions.
CleanupClientsDropsExchanges ==
  /\ Idle
  /\ cleanupTimers > 0
  /\ cleanupScheduled' = FALSE
  /\ clients' = SelectSeq(clients, isConnected)
  /\ serverTransport' = cleanupLoggingEventForwarder(clients', serverTransport)
  /\ grantSecurityClassesPromise' = None
  /\ validateDSKAndEnterPinPromise' = None
  /\ UNCHANGED <<conn, commands, schemaVersion, receiveEvents,
                 receiveLogs, pingInterval, eventForwarder,
                 deferreds, ops, microtasks, emitted>>
  /\ UNCHANGED <<probeVars, proc>>
  /\ cleanupTimers' = cleanupTimers - 1
  /\ logging' = LoggingAfter
  /\ UNCHANGED <<pingTimers, subscriptions>>
  /\ Silent

\* ClientsController.cleanupClients, run by the timer of scheduleClientCleanup
CleanupClients ==
  /\ Idle
  /\ cleanupTimers > 0
  /\ cleanupScheduled' = FALSE
  /\ clients' = SelectSeq(clients, isConnected)
  /\ serverTransport' = cleanupLoggingEventForwarder(clients', serverTransport)
  /\ UNCHANGED <<conn, commands, schemaVersion, receiveEvents,
                 receiveLogs, pingInterval, eventForwarder, channelVars,
                 deferreds, ops, microtasks, emitted>>
  /\ UNCHANGED <<probeVars, proc>>
  /\ cleanupTimers' = cleanupTimers - 1
  /\ logging' = LoggingAfter
  /\ UNCHANGED <<pingTimers, subscriptions>>
  /\ Silent

\* The setInterval callback installed by addSocket: sessions that are not
\* connected are dropped from the list (disconnect() on them changes nothing).
PingIntervalTick ==
  /\ Idle
  /\ pingInterval
  /\ clients' = SelectSeq(clients, isConnected)
  /\ conn' = [c \in Clients |->
                IF (\E i \in DOMAIN clients : clients[i] = c) /\ ~isConnected(c)
                THEN socketClose(conn, c)[c] ELSE conn[c]]
  /\ UNCHANGED <<commands, schemaVersion, receiveEvents, receiveLogs,
                 pingInterval, eventForwarder, cleanupScheduled,
                 serverTransport, channelVars, deferreds, ops, microtasks,
                 emitted>>
  /\ UNCHANGED <<probeVars, proc, resourceVars>>
  /\ Silent

\* checkAlive that marks the probe and pings, and never gives a session up.
CheckAliveKeeps(c) ==
  /\ Idle
  /\ conn[c] # "none"
  /\ checksSincePong' = [checksSincePong EXCEPT ![c] = Missed(@)]
  /\ outstandingPing' = [outstandingPing EXCEPT ![c] = TRUE]
  /\ UNCHANGED <<conn, commands, schemaVersion, receiveEvents, receiveLogs,
                 registryVars, channelVars, deferreds, ops, microtasks,
                 emitted, proc, resourceVars>>
  /\ SendsAnd(<<>>, IF outstandingPing[c] THEN <<>> ELSE <<c>>, {}, FALSE)

\* Client.checkAlive: with a probe outstanding the session is assumed dead and
\* its socket closed; otherwise the probe is marked outstanding and socket.ping()
\* called once.
CheckAlive(c) ==
  /\ Idle
  /\ conn[c] # "none"
  /\ checksSincePong' = [checksSincePong EXCEPT ![c] = Missed(@)]
  /\ UNCHANGED <<commands, schemaVersion, receiveEvents, receiveLogs,
                 registryVars, channelVars, deferreds, ops, microtasks,
                 emitted, proc, resourceVars>>
  /\ IF outstandingPing[c]
     THEN /\ conn' = socketClose(conn, c)
          /\ UNCHANGED outstandingPing
          /\ SendsAnd(<<>>, <<>>, {}, FALSE)
     ELSE /\ outstandingPing' = [outstandingPing EXCEPT ![c] = TRUE]
          /\ UNCHANGED conn
          /\ SendsAnd(<<>>, <<c>>, {}, FALSE)

\* The socket's pong event: the listener of the Client constructor.
Pong(c) ==
  /\ Idle
  /\ conn[c] \in {"open", "closing"}
  /\ outstandingPing' = [outstandingPing EXCEPT ![c] = FALSE]
  /\ checksSincePong' = [checksSincePong EXCEPT ![c] = 0]
  /\ UNCHANGED <<conn, commands, schemaVersion, receiveEvents, receiveLogs,
                 registryVars, channelVars, deferreds, ops, microtasks,
                 emitted, proc, resourceVars>>
  /\ Silent

\* A teardown that leaves the log forwarder as it is.
DisconnectLeavesForwarder ==
  /\ Idle
  /\ pingInterval' = FALSE
  /\ conn' = [c \in Clients |->
                IF \E i \in DOMAIN clients : clients[i] = c
                THEN socketClose(conn, c)[c] ELSE conn[c]]
  /\ clients' = <<>>
  /\ UNCHANGED <<commands, schemaVersion, receiveEvents, receiveLogs,
                 eventForwarder, cleanupScheduled, serverTransport,
                 channelVars, deferreds, ops, microtasks, emitted>>
  /\ UNCHANGED <<probeVars, proc>>
  /\ pingTimers' = clearPingInterval(pingInterval, pingTimers)
  /\ UNCHANGED <<cleanupTimers, subscriptions, logging>>
  /\ Silent

\* ClientsController.disconnect: the ping timer is cleared, every registered
\* session disconnected, the list emptied and the log forwarder cleaned up.
disconnect ==
  /\ pingInterval' = FALSE
  /\ conn' = [c \in Clients |->
                IF \E i \in DOMAIN clients : clients[i] = c
                THEN socketClose(conn, c)[c] ELSE conn[c]]
  /\ clients' = <<>>
  /\ serverTransport' = cleanupLoggingEventForwarder(clients', serverTransport)
  /\ UNCHANGED <<commands, schemaVersion, receiveEvents, receiveLogs,
                 eventForwarder, cleanupScheduled, channelVars, deferreds,
                 ops, microtasks, emitted, probeVars>>
  /\ pingTimers' = clearPingInterval(pingInterval, pingTimers)
  /\ logging' = LoggingAfter
  /\ UNCHANGED <<cleanupTimers, subscriptions>>
  /\ Silent

\* A call of ClientsController.disconnect on its own.
Disconnect ==
  /\ Idle
  /\ UNCHANGED proc
  /\ disconnect

\* ------------------------------------------------ WebSocketLogTransport
\* The sessions log() forwards an item to.
LogRecipients == SelectSeq(clients, LAMBDA c : receiveLogs[c] /\ isConnected(c))

\* The forEach of log(): sendEvent for each recipient in turn; the first
\* socket.send that throws ends the loop with that exception.
RECURSIVE ForEachSendEvent(_, _, _)
ForEachSendEvent(cls, frame, throwing) ==
  IF cls = <<>> \/ Head(cls) \in throwing THEN <<>>
  ELSE <<sendData(Head(cls), frame)>>
       \o ForEachSendEvent(Tail(cls), frame, throwing)

\* The driver logs an item while the transport is attached:
\* WebSocketLogTransport.log. throwing: the sessions whose socket.send throws.
\* Nothing in log(), sendEvent or sendData catches: the exception of the first
\* failing recipient leaves log() before next() is called.
LogItem(throwing) ==
  /\ Idle
  /\ serverTransport
  /\ UNCHANGED <<commands, sessionVars, registryVars, channelVars, deferreds,
                 ops, microtasks, emitted>>
  /\ UNCHANGED <<probeVars, proc, resourceVars>>
  /\ LET hit == {c \in throwing :
                   \E i \in DOMAIN LogRecipients : LogRecipients[i] = c}
     IN SendsAnd(ForEachSendEvent(LogRecipients, EventFrame("logging"), hit),
                 <<>>,
                 IF hit = {} THEN {}
                 ELSE {LogRecipients[CHOOSE i \in DOMAIN LogRecipients :
                         /\ LogRecipients[i] \in hit
                         /\ \A j \in 1..(i - 1) : LogRecipients[j] \notin hit]},
                 hit # {})

\* ------------------------------------------------------------- Client
\* A session whose suspended command holds back its later frames.
CanReceiveUnlessSuspended(c) ==
  /\ Idle
  /\ conn[c] \in {"open", "closing"}
  /\ \A o \in ops : o.client = c => o.cmd # "awaiting"

\* The socket's message event reaches Client.receiveMessage.
CanReceive(c) ==
  /\ Idle
  /\ conn[c] \in {"open", "closing"}

\* The frame parses as a command; its messageId is the client's next one.
\* Clients send at most MaxMsgs commands, and one answer more for each prompt.
NextId(c) == commands[c] + 1
Command(c) ==
  /\ CanReceive(c)
  /\ Sum(commands, Clients) < MaxMsgs
  /\ commands' = [commands EXCEPT ![c] = @ + 1]
Answer(c) ==
  /\ CanReceive(c)
  /\ Sum(commands, Clients) < MaxMsgs + Len(deferreds)
  /\ commands' = [commands EXCEPT ![c] = @ + 1]

\* JSON.parse throws: the socket is closed, nothing is sent.
ReceiveUnparsable(c) ==
  /\ CanReceive(c)
  /\ conn' = socketClose(conn, c)
  /\ UNCHANGED <<commands, schemaVersion, receiveEvents, receiveLogs, registryVars,
                 channelVars, deferreds, ops, microtasks, emitted>>
  /\ UNCHANGED <<probeVars, proc, resourceVars>>
  /\ Silent

SchemaIncompatible(v) == v < minSchemaVersion \/ v > maxSchemaVersion

\* The value of this.schemaVersion after a set_api_schema command for v:
\* the field is assigned before the range check.
AssignSchemaVersion(old, v) == v

\* set_api_schema
ReceiveSetApiSchema(c, v) ==
  /\ Command(c)
  /\ schemaVersion' = [schemaVersion EXCEPT ![c] = AssignSchemaVersion(@, v)]
  /\ UNCHANGED <<conn, receiveEvents, receiveLogs, registryVars, channelVars,
                 deferreds, ops, microtasks, emitted>>
  /\ UNCHANGED <<probeVars, proc, resourceVars>>
  /\ Sends(<<sendData(c,
               IF SchemaIncompatible(schemaVersion'[c])
               THEN CatchFrame(NextId(c), <<"schema_incompatible", "">>)
               ELSE ResultSuccess(NextId(c), ""))>>)

\* start_listening
ReceiveStartListening(c) ==
  /\ Command(c)
  /\ receiveEvents' = [receiveEvents EXCEPT ![c] = TRUE]
  /\ UNCHANGED <<conn, schemaVersion, receiveLogs, registryVars, channelVars,
                 deferreds, ops, microtasks, emitted>>
  /\ UNCHANGED <<probeVars, proc, resourceVars>>
  /\ Sends(<<sendData(c, ResultSuccess(NextId(c), "state"))>>)

\* start_listening whose snapshot made the flag without a result.
ReceiveStartListeningThrowsLate(c, kind) ==
  /\ Command(c)
  /\ receiveEvents' = [receiveEvents EXCEPT ![c] = TRUE]
  /\ UNCHANGED <<conn, schemaVersion, receiveLogs, registryVars, channelVars,
                 deferreds, ops, microtasks, emitted>>
  /\ UNCHANGED <<probeVars, proc, resourceVars>>
  /\ Sends(<<sendData(c, CatchFrame(NextId(c), <<kind, "">>))>>)

\* start_listening whose dumpState throws: the catch of receiveMessage sends
\* the error result in the same call, before receiveEvents is assigned.
ReceiveStartListeningThrows(c, kind) ==
  /\ Command(c)
  /\ UNCHANGED <<sessionVars, registryVars, channelVars, deferreds, ops,
                 microtasks, emitted>>
  /\ UNCHANGED <<probeVars, proc, resourceVars>>
  /\ Sends(<<sendData(c, CatchFrame(NextId(c), <<kind, "">>))>>)

\* An unknown command that is answered and costs the session its connection.
ReceiveUnknownCloses(c) ==
  /\ Command(c)
  /\ conn' = socketClose(conn, c)
  /\ UNCHANGED <<schemaVersion, receiveEvents, receiveLogs, registryVars,
                 channelVars, deferreds, ops, microtasks, emitted>>
  /\ UNCHANGED <<probeVars, proc, resourceVars>>
  /\ Sends(<<sendData(c, CatchFrame(NextId(c), <<"unknown_command", "">>))>>)

\* A command whose prefix names no instance: UnknownCommandError, caught in
\* the same call.
ReceiveUnknown(c) ==
  /\ Command(c)
  /\ UNCHANGED <<conn, schemaVersion, receiveEvents, receiveLogs, registryVars,
                 channelVars, deferreds, ops, microtasks, emitted>>
  /\ UNCHANGED <<probeVars, proc, resourceVars>>
  /\ Sends(<<sendData(c, CatchFrame(NextId(c), <<"unknown_command", "">>))>>)

\* ------------------------------------------------- DriverMessageHandler
\* ClientsController.configureLoggingEventForwarder: serverTransport afterwards
\* (the forwarder is created if need be, and started unless it is).
configureLoggingEventForwarder(started) == TRUE

\* driver.start_listening_logs: the session wants logs and the forwarder's
\* transport is attached; the result follows the await of the handler.
ReceiveStartListeningLogs(c) ==
  /\ Command(c)
  /\ receiveLogs' = [receiveLogs EXCEPT ![c] = TRUE]
  /\ serverTransport' = configureLoggingEventForwarder(serverTransport)
  /\ microtasks' = <<ResultTask(c, ResultSuccess(NextId(c), ""))>>
  /\ UNCHANGED <<conn, schemaVersion, receiveEvents, clients, pingInterval,
                 eventForwarder, cleanupScheduled, channelVars, deferreds,
                 ops, emitted>>
  /\ UNCHANGED <<probeVars, proc>>
  /\ logging' = LoggingAfter
  /\ UNCHANGED <<cleanupTimers, pingTimers, subscriptions>>
  /\ Silent

\* driver.stop_listening_logs: the session wants no logs any more, and the
\* forwarder stops when no registered session does.
ReceiveStopListeningLogs(c) ==
  /\ Command(c)
  /\ receiveLogs' = [receiveLogs EXCEPT ![c] = FALSE]
  /\ serverTransport' =
       IF (\A i \in DOMAIN clients : ~receiveLogs'[clients[i]])
       THEN FALSE ELSE serverTransport
  /\ microtasks' = <<ResultTask(c, ResultSuccess(NextId(c), ""))>>
  /\ UNCHANGED <<conn, schemaVersion, receiveEvents, clients, pingInterval,
                 eventForwarder, cleanupScheduled, channelVars, deferreds,
                 ops, emitted>>
  /\ UNCHANGED <<probeVars, proc>>
  /\ logging' = LoggingAfter
  /\ UNCHANGED <<cleanupTimers, pingTimers, subscriptions>>
  /\ Silent

\* update_log_config: the driver's log config takes the level of the frame and
\* the result is sent in the same call; the forwarder is not consulted.
ReceiveUpdateLogConfig(c, level) ==
  /\ Command(c)
  /\ logging' = [logging EXCEPT !.level = level]
  /\ UNCHANGED <<conn, schemaVersion, receiveEvents, receiveLogs, registryVars,
                 channelVars, deferreds, ops, microtasks, emitted>>
  /\ UNCHANGED <<probeVars, proc, cleanupTimers, pingTimers, subscriptions>>
  /\ Sends(<<sendData(c, ResultSuccess(NextId(c), ""))>>)

\* ClientsController.restartLoggingEventForwarderIfNeeded, whenever it is
\* called: the forwarder, if there is one, compares levels and restarts.
restartLoggingEventForwarderIfNeeded ==
  /\ Idle
  /\ logging' = restartIfNeeded(logging)
  /\ UNCHANGED <<commands, sessionVars, registryVars, channelVars, deferreds,
                 ops, microtasks, emitted>>
  /\ UNCHANGED <<probeVars, proc, cleanupTimers, pingTimers, subscriptions>>
  /\ Silent

\* ------------------------------------------ ControllerMessageHandler
\* The guard of ControllerCommand.beginInclusion.
InclusionInProgress ==
  grantSecurityClassesPromise # None \/ validateDSKAndEnterPinPromise # None

\* The guard of ControllerCommand.replaceFailedNode: the case has none.
ReplaceInProgress == FALSE

\* A controller operation the handler awaits. callbacks: processInclusionOptions
\* installed userCallbacks (the closure variables grantP and validateP start
\* undefined). phase is the environment's position in the interactive flow.
NewOp(c, messageId, callbacks) ==
  [client |-> c, messageId |-> messageId,
   callbacks |-> callbacks, cmd |-> "awaiting",
   phase |-> IF callbacks THEN "started" ELSE "ended",
   grantP |-> None, validateP |-> None]

\* An operation that has settled and whose flow has ended does nothing more.
Update(o, new) ==
  IF new.cmd = "settled" /\ new.phase = "ended"
  THEN ops \ {o} ELSE (ops \ {o}) \cup {new}

\* processInclusionOptions: are userCallbacks installed for this message?
processInclusionOptions(mode) == mode = 1

\* The wrong error class thrown for an answer nobody waits for.
InclusionPhaseNotInProgressErrorWrong(phase) ==
  <<"inclusion_already_in_progress", "">>

\* new InclusionPhaseNotInProgressError(phase), as the catch block reads it.
InclusionPhaseNotInProgressError(phase) ==
  <<"inclusion_phase_not_in_progress", phase>>

\* handle() threw before its first await: the rejection is caught by
\* receiveMessage in a promise reaction.
Throw(c, err) == microtasks' = <<ResultTask(c, CatchFrame(NextId(c), err))>>

\* controller.begin_inclusion
ReceiveBeginInclusion(c, mode) ==
  /\ Command(c)
  /\ IF InclusionInProgress
     THEN /\ Throw(c, <<"inclusion_already_in_progress", "">>)
          /\ UNCHANGED ops
     ELSE /\ ops' = ops \cup {NewOp(c, NextId(c), processInclusionOptions(mode))}
          /\ UNCHANGED microtasks
  /\ UNCHANGED <<sessionVars, registryVars, channelVars, deferreds,
                 emitted>>
  /\ UNCHANGED <<probeVars, proc, resourceVars>>
  /\ Silent

\* controller.replace_failed_node
ReceiveReplaceFailedNode(c, mode) ==
  /\ Command(c)
  /\ IF ReplaceInProgress
     THEN /\ Throw(c, <<"inclusion_already_in_progress", "">>)
          /\ UNCHANGED ops
     ELSE /\ ops' = ops \cup {NewOp(c, NextId(c), processInclusionOptions(mode))}
          /\ UNCHANGED microtasks
  /\ UNCHANGED <<sessionVars, registryVars, channelVars, deferreds,
                 emitted>>
  /\ UNCHANGED <<probeVars, proc, resourceVars>>
  /\ Silent

\* DeferredPromise.resolve / reject: only a pending promise settles.
Settle(ds, d, state, value) ==
  IF ds[d].state = "pending"
  THEN [ds EXCEPT ![d] = [state |-> state, value |-> value]]
  ELSE ds

\* A deferred created without its finally callback.
ReactionsDropped(ds, ch, d) == <<>>

\* The reactions queued when deferred d of channel ch settles: its finally
\* callback.
Reactions(ds, ch, d) ==
  IF d # None /\ ds[d].state = "pending" THEN <<FinallyTask(ch, d)>> ELSE <<>>

\* The value an answer command resolves the deferred with.
AnswerValue(v) == v

\* controller.grant_security_classes
ReceiveGrantSecurityClasses(c, v) ==
  /\ Answer(c)
  /\ IF grantSecurityClassesPromise = None
     THEN /\ Throw(c, InclusionPhaseNotInProgressError(
                        "grantSecurityClassesPromise"))
          /\ UNCHANGED deferreds
     ELSE /\ deferreds' = Settle(deferreds, grantSecurityClassesPromise,
                                 "resolved", AnswerValue(v))
          /\ microtasks' =
               Reactions(deferreds, "grant", grantSecurityClassesPromise)
               \o <<ResultTask(c, ResultSuccess(NextId(c), ""))>>
  /\ UNCHANGED <<sessionVars, registryVars, channelVars, ops, emitted>>
  /\ UNCHANGED <<probeVars, proc, resourceVars>>
  /\ Silent

\* controller.validate_dsk_and_enter_pin
ReceiveValidateDSKAndEnterPIN(c, v) ==
  /\ Answer(c)
  /\ IF validateDSKAndEnterPinPromise = None
     THEN /\ Throw(c, InclusionPhaseNotInProgressError(
                        "validateDSKAndEnterPinPromise"))
          /\ UNCHANGED deferreds
     ELSE /\ deferreds' = Settle(deferreds, validateDSKAndEnterPinPromise,
                                 "resolved", AnswerValue(v))
          /\ microtasks' =
               Reactions(deferreds, "validate", validateDSKAndEnterPinPromise)
               \o <<ResultTask(c, ResultSuccess(NextId(c), ""))>>
  /\ UNCHANGED <<sessionVars, registryVars, channelVars, ops, emitted>>
  /\ UNCHANGED <<probeVars, proc, resourceVars>>
  /\ Silent

\* ------------------------------------------------------ promise reactions
\* A finally callback that deletes the field whatever it holds.
FinallyCallbackClears(field, d) == None

\* A finally callback that leaves the field alone.
FinallyCallbackKeeps(field, d) == field

\* The finally callback of a channel's deferred: the field is deleted only if
\* it still holds this deferred.
FinallyCallback(field, d) == IF field = d THEN None ELSE field

RunMicrotask ==
  /\ microtasks # <<>>
  /\ LET t == Head(microtasks) IN
       /\ microtasks' = Tail(microtasks)
       /\ grantSecurityClassesPromise' =
            IF t.kind = "finally" /\ t.ch = "grant"
            THEN FinallyCallback(grantSecurityClassesPromise, t.d)
            ELSE grantSecurityClassesPromise
       /\ validateDSKAndEnterPinPromise' =
            IF t.kind = "finally" /\ t.ch = "validate"
            THEN FinallyCallback(validateDSKAndEnterPinPromise, t.d)
            ELSE validateDSKAndEnterPinPromise
  /\ UNCHANGED <<commands, sessionVars, registryVars, deferreds, ops, emitted>>
  /\ UNCHANGED <<probeVars, proc, resourceVars>>
  /\ Sends(IF Head(microtasks).kind = "result"    \* receiveMessage resumes
           THEN <<sendData(Head(microtasks).c, Head(microtasks).frame)>>
           ELSE <<>>)

\* ---------------------------------------------- the driver's controller
\* A continuation outside the try block: a rejection is not caught.
ContinuationUncaught(c, messageId, outcome) ==
  IF outcome = "ok" THEN <<ResultTask(c, ResultSuccess(messageId, ""))>>
  ELSE <<>>

\* The promise of an awaited controller operation settles: receiveMessage
\* resumes in a promise reaction, and sends the result or catches the failure.
Continuation(c, messageId, outcome) ==
  <<ResultTask(c, IF outcome = "ok" THEN ResultSuccess(messageId, "")
                  ELSE CatchFrame(messageId, <<outcome, "">>))>>

ControllerSettles(o, outcome) ==
  /\ Idle
  /\ o.cmd = "awaiting"
  /\ ops' = Update(o, [o EXCEPT !.cmd = "settled"])
  /\ microtasks' = Continuation(o.client, o.messageId, outcome)
  /\ UNCHANGED <<commands, sessionVars, registryVars, channelVars,
                 deferreds, emitted>>
  /\ UNCHANGED <<probeVars, proc, resourceVars>>
  /\ Silent

NewDeferred == [state |-> "pending", value |-> None]

\* A grant callback that tells every registered session of the prompt.
GrantSecurityClassesCallbackToAll(o) ==
  /\ Idle
  /\ o.callbacks
  /\ o.phase = "started"
  /\ Len(deferreds) < MaxDeferreds
  /\ deferreds' = Append(deferreds, NewDeferred)
  /\ grantSecurityClassesPromise' = Len(deferreds) + 1
  /\ ops' = Update(o, [o EXCEPT !.grantP = Len(deferreds) + 1,
                                !.phase = "grant"])
  /\ UNCHANGED <<commands, sessionVars, registryVars,
                 validateDSKAndEnterPinPromise, microtasks, emitted>>
  /\ UNCHANGED <<probeVars, proc, resourceVars>>
  /\ Sends([i \in DOMAIN clients |->
              sendData(clients[i], EventFrame("grant security classes"))])

\* The controller calls userCallbacks.grantSecurityClasses of operation o.
GrantSecurityClassesCallback(o) ==
  /\ Idle
  /\ o.callbacks
  /\ o.phase = "started"
  /\ Len(deferreds) < MaxDeferreds
  /\ deferreds' = Append(deferreds, NewDeferred)
  /\ grantSecurityClassesPromise' = Len(deferreds) + 1
  /\ ops' = Update(o, [o EXCEPT !.grantP = Len(deferreds) + 1,
                                !.phase = "grant"])
  /\ UNCHANGED <<commands, sessionVars, registryVars,
                 validateDSKAndEnterPinPromise, microtasks, emitted>>
  /\ UNCHANGED <<probeVars, proc, resourceVars>>
  /\ Sends(<<sendData(o.client, EventFrame("grant security classes"))>>)

\* The controller calls userCallbacks.validateDSKAndEnterPIN of operation o,
\* once its grant was answered.
ValidateDSKAndEnterPINCallback(o) ==
  /\ Idle
  /\ o.callbacks
  /\ o.phase = "grant"
  /\ deferreds[o.grantP].state = "resolved"
  /\ Len(deferreds) < MaxDeferreds
  /\ deferreds' = Append(deferreds, NewDeferred)
  /\ validateDSKAndEnterPinPromise' = Len(deferreds) + 1
  /\ ops' = Update(o, [o EXCEPT !.validateP = Len(deferreds) + 1,
                                !.phase = "validate"])
  /\ UNCHANGED <<commands, sessionVars, registryVars,
                 grantSecurityClassesPromise, microtasks, emitted>>
  /\ UNCHANGED <<probeVars, proc, resourceVars>>
  /\ Sends(<<sendData(o.client,
                      EventFrame("validate dsk and enter pin"))>>)

\* The frames userCallbacks.abort sends, for an operation started by c.
AbortEvents(c) == <<sendData(c, EventFrame("inclusion aborted"))>>

\* The controller calls userCallbacks.abort of operation o: the closure's
\* deferreds are rejected and the event is sent.
Abort(o) ==
  /\ Idle
  /\ o.callbacks
  /\ o.phase # "ended"
  /\ LET g == o.grantP
         v == o.validateP
         afterG == IF g # None THEN Settle(deferreds, g, "rejected", None)
                   ELSE deferreds
     IN /\ deferreds' = IF v # None THEN Settle(afterG, v, "rejected", None)
                        ELSE afterG
        /\ microtasks' = Reactions(deferreds, "grant", g)
                         \o Reactions(deferreds, "validate", v)
  /\ ops' = Update(o, [o EXCEPT !.phase = "ended"])
  /\ UNCHANGED <<commands, sessionVars, registryVars, channelVars, emitted>>
  /\ UNCHANGED <<probeVars, proc, resourceVars>>
  /\ Sends(AbortEvents(o.client))

\* The interactive flow of operation o ends without an abort: no callback is
\* waiting for an answer.
Waiting(o) ==
  \/ o.phase = "grant" /\ deferreds[o.grantP].state = "pending"
  \/ o.phase = "validate" /\ deferreds[o.validateP].state = "pending"

FlowEnds(o) ==
  /\ Idle
  /\ o.phase # "ended"
  /\ ~Waiting(o)
  /\ ops' = Update(o, [o EXCEPT !.phase = "ended"])
  /\ UNCHANGED <<commands, sessionVars, registryVars, channelVars,
                 deferreds, microtasks, emitted>>
  /\ UNCHANGED <<probeVars, proc, resourceVars>>
  /\ Silent

\* The controller emits an event: the event forwarder sends it to every
\* registered session that is listening and connected.
RECURSIVE Forward(_, _)
Forward(cls, frame) ==
  IF cls = <<>> THEN <<>>
  ELSE (IF receiveEvents[Head(cls)] /\ isConnected(Head(cls))
        THEN <<sendData(Head(cls), frame)>> ELSE <<>>)
       \o Forward(Tail(cls), frame)

ControllerEvent ==
  /\ Idle
  /\ eventForwarder
  /\ emitted < MaxEvents
  /\ emitted' = emitted + 1
  /\ UNCHANGED <<commands, sessionVars, registryVars, channelVars, deferreds,
                 ops, microtasks>>
  /\ UNCHANGED <<probeVars, proc, resourceVars>>
  /\ Sends(Forward(clients, EventFrame("controller event")))

\* ------------------------------------------------------------ bin/server.ts
Running == proc.exit = "running"

\* process.exit, and the other ways the process ends.
Exit(how, exitCode) ==
  [proc EXCEPT !.exit = "exited", !.how = how, !.exitCode = exitCode]

\* Everything the process's own steps leave alone.
SessionsUnchanged ==
  /\ UNCHANGED <<conn, commands, schemaVersion, receiveEvents, receiveLogs,
                 registryVars, channelVars, deferreds, ops, microtasks,
                 emitted, probeVars, resourceVars>>
  /\ Silent

\* driver.start() resolves: main goes on to declare closing and handleShutdown
\* and to register the handlers of SIGINT and SIGTERM.
StartResolves ==
  /\ Idle /\ Running
  /\ proc.main = "starting"
  /\ proc' = [proc EXCEPT !.main = "running"]
  /\ SessionsUnchanged

\* driver.start() rejects: the catch of main exits with code 1.
StartRejects ==
  /\ Idle /\ Running
  /\ proc.main = "starting"
  /\ proc' = Exit("start failed", "1")
  /\ SessionsUnchanged

\* The driver's "driver ready" event: the server is created and listens.
DriverReady ==
  /\ Idle /\ Running
  /\ proc.driver = "up"
  /\ proc.server = "none"
  /\ proc' = [proc EXCEPT !.server = "listening"]
  /\ SessionsUnchanged

\* The ws server's connection event, while the server listens.
Connection(c) ==
  /\ Running
  /\ proc.server = "listening"
  /\ AddSocket(c)

\* handleShutdown(exitCode), up to its first await. A call while closing exits
\* at once. Otherwise closing is set and, with a server, server.destroy()
\* disconnects the sessions, closes the http server and waits for its close
\* event; without one, driver.destroy() is called in the same turn.
handleShutdown(exitCode) ==
  IF proc.closing
  THEN /\ proc' = [Exit("second request", exitCode) EXCEPT !.fatal =
                     proc.fatal \/ exitCode = "1"]
       /\ SessionsUnchanged
  ELSE IF proc.server # "none"
  THEN /\ proc' = [proc EXCEPT !.closing = TRUE, !.code = exitCode,
                               !.fatal = proc.fatal \/ exitCode = "1",
                               !.server = "closing"]
       /\ disconnect
  ELSE /\ proc' = [proc EXCEPT !.closing = TRUE, !.code = exitCode,
                               !.fatal = proc.fatal \/ exitCode = "1",
                               !.driver = "destroying"]
       /\ SessionsUnchanged

\* SIGINT or SIGTERM. The handler is called with the signal's name as its
\* exitCode argument. Before main has registered it the signal takes its
\* default action: the process is killed.
Signal ==
  /\ Idle /\ Running
  /\ IF proc.main = "running"
     THEN handleShutdown("SIGINT")
     ELSE /\ proc' = Exit("killed", "SIGINT")
          /\ SessionsUnchanged

\* The driver emits an error with code Driver_Failed: the listener calls
\* handleShutdown(1). While main still awaits driver.start() the const
\* handleShutdown is not initialised and the call throws a ReferenceError out
\* of the listener into the driver's emit; what becomes of it there is the
\* driver's business: it is uncaught (the process dies) or swallowed.
DriverFailed(outcome) ==
  /\ Idle /\ Running
  /\ proc.driver = "up"
  /\ IF proc.main = "running"
     THEN /\ outcome = "swallowed"
          /\ handleShutdown("1")
     ELSE /\ proc' = IF outcome = "uncaught"
                     THEN [Exit("uncaught", "1") EXCEPT !.fatal = TRUE]
                     ELSE [proc EXCEPT !.fatal = TRUE]
          /\ SessionsUnchanged

\* The http server's close event, once every connection has ended:
\* server.destroy() resolves and handleShutdown calls driver.destroy().
ServerClosed ==
  /\ Idle /\ Running
  /\ proc.server = "closing"
  /\ \A c \in Clients : conn[c] \notin {"open", "closing"}
  /\ proc' = [proc EXCEPT !.server = "closed", !.driver = "destroying"]
  /\ SessionsUnchanged

\* driver.destroy() resolves: handleShutdown ends with process.exit(exitCode).
DriverDestroyed ==
  /\ Idle /\ Running
  /\ proc.driver = "destroying"
  /\ proc' = [Exit("teardown", proc.code) EXCEPT !.driver = "destroyed"]
  /\ SessionsUnchanged

\* ----------------------------------------------------------- specification
Next ==
  \/ \E c \in Clients : AddSocket(c)
  \/ \E c \in Clients : SocketClosed(c)
  \/ CleanupClients
  \/ PingIntervalTick
  \/ \E c \in Clients : ReceiveUnparsable(c)
  \/ \E c \in Clients, v \in SchemaInputs : ReceiveSetApiSchema(c, v)
  \/ \E c \in Clients : ReceiveStartListening(c)
  \/ \E c \in Clients : ReceiveUnknown(c)
  \/ \E c \in Clients, m \in InclusionModes : ReceiveBeginInclusion(c, m)
  \/ \E c \in Clients, m \in InclusionModes : ReceiveReplaceFailedNode(c, m)
  \/ \E c \in Clients, v \in AnswerValues : ReceiveGrantSecurityClasses(c, v)
  \/ \E c \in Clients, v \in AnswerValues : ReceiveValidateDSKAndEnterPIN(c, v)
  \/ RunMicrotask
  \/ \E o \in ops, r \in Outcomes : ControllerSettles(o, r)
  \/ \E o \in ops : GrantSecurityClassesCallback(o)
  \/ \E o \in ops : ValidateDSKAndEnterPINCallback(o)
  \/ \E o \in ops : Abort(o)
  \/ \E o \in ops : FlowEnds(o)
  \/ ControllerEvent

Spec == Init /\ [][Next]_vars

\* The model's state space is the product of concerns that do not read each
\* other's state, so each property is checked under the part of Next whose
\* actions read or write what the property is about.

\* Starting interactive flows: the coordinator's two channels, the deferreds,
\* the userCallbacks and the commands that start or answer an exchange, from
\* any session.
NextStart ==
  \/ \E c \in Clients : AddSocket(c)
  \/ \E c \in Clients : ReceiveBeginInclusion(c, 1)
  \/ \E c \in Clients : ReceiveReplaceFailedNode(c, 1)
  \/ \E c \in Clients, v \in AnswerValues : ReceiveGrantSecurityClasses(c, v)
  \/ \E c \in Clients, v \in AnswerValues : ReceiveValidateDSKAndEnterPIN(c, v)
  \/ RunMicrotask
  \/ \E o \in ops : GrantSecurityClassesCallback(o)
  \/ \E o \in ops : ValidateDSKAndEnterPINCallback(o)
  \/ \E o \in ops : Abort(o)
  \/ \E o \in ops : FlowEnds(o)

SpecStart == Init /\ [][NextStart]_vars

\* Answering interactive flows: session 1 starts them, by either command and
\* also while one is under way; the answers come from either session.
NextFlow ==
  \/ \E c \in Clients : AddSocket(c)
  \/ ReceiveBeginInclusion(1, 1)
  \/ ReceiveReplaceFailedNode(1, 1)
  \/ \E c \in Clients, v \in AnswerValues : ReceiveGrantSecurityClasses(c, v)
  \/ \E c \in Clients, v \in AnswerValues : ReceiveValidateDSKAndEnterPIN(c, v)
  \/ RunMicrotask
  \/ \E o \in ops : GrantSecurityClassesCallback(o)
  \/ \E o \in ops : ValidateDSKAndEnterPINCallback(o)
  \/ \E o \in ops : Abort(o)
  \/ \E o \in ops : FlowEnds(o)

SpecFlow == Init /\ [][NextFlow]_vars

\* Command dispatch: every way Client.receiveMessage produces a result: at
\* once, from a failure thrown before the handler's first await, or after
\* its await.
NextDispatch ==
  \/ \E c \in Clients : AddSocket(c)
  \/ \E c \in Clients : SocketClosed(c)
  \/ \E c \in Clients : ReceiveUnparsable(c)
  \/ \E c \in Clients, v \in {maxSchemaVersion, maxSchemaVersion + 1} :
       ReceiveSetApiSchema(c, v)
  \/ \E c \in Clients : ReceiveUnknown(c)
  \/ \E c \in Clients, m \in InclusionModes : ReceiveBeginInclusion(c, m)
  \/ RunMicrotask
  \/ \E o \in ops, r \in Outcomes : ControllerSettles(o, r)
  \/ \E o \in ops : GrantSecurityClassesCallback(o)

SpecDispatch == Init /\ [][NextDispatch]_vars

\* Schema negotiation.
NextSchema ==
  \/ \E c \in Clients : AddSocket(c)
  \/ \E c \in Clients : SocketClosed(c)
  \/ \E c \in Clients : ReceiveUnparsable(c)
  \/ \E c \in Clients, v \in SchemaInputs : ReceiveSetApiSchema(c, v)

SpecSchema == Init /\ [][NextSchema]_vars

\* Everything that sends a frame to a session.
NextFrames ==
  \/ \E c \in Clients : AddSocket(c)
  \/ \E c \in Clients : SocketClosed(c)
  \/ CleanupClients
  \/ PingIntervalTick
  \/ \E c \in Clients : ReceiveStartListening(c)
  \/ ReceiveBeginInclusion(1, 1)
  \/ RunMicrotask
  \/ \E o \in ops, r \in Outcomes : ControllerSettles(o, r)
  \/ \E o \in ops : GrantSecurityClassesCallback(o)
  \/ \E o \in ops : Abort(o)
  \/ ControllerEvent

SpecFrames == Init /\ [][NextFrames]_vars

\* Interactive flows under the scheduling that ends them: promise reactions
\* run, and the controller aborts an exchange it is still waiting on (the
\* driver's time-out for user input).
ControllerTimesOut == \E o \in ops : Waiting(o) /\ Abort(o)

\* The flows session 1 starts with begin_inclusion, with sessions that may go
\* away at any time and clients, of either session, that may or may not answer.
NextLive ==
  \/ \E c \in Clients : AddSocket(c)
  \/ \E c \in Clients : SocketClosed(c)
  \/ ReceiveBeginInclusion(1, 1)
  \/ \E c \in Clients : ReceiveGrantSecurityClasses(c, 1)
  \/ \E c \in Clients : ReceiveValidateDSKAndEnterPIN(c, 1)
  \/ RunMicrotask
  \/ \E o \in ops : GrantSecurityClassesCallback(o)
  \/ \E o \in ops : ValidateDSKAndEnterPINCallback(o)
  \/ \E o \in ops : Abort(o)
  \/ \E o \in ops : FlowEnds(o)

LiveFlow ==
  Init /\ [][NextLive]_vars /\ WF_vars(RunMicrotask) /\ WF_vars(ControllerTimesOut)

\* Liveness probing of the sessions: sockets connect and go away, checkAlive
\* is called on a session, pongs arrive, the registry's timers fire.
NextProbe ==
  \/ \E c \in Clients : AddSocket(c)
  \/ \E c \in Clients : SocketClosed(c)
  \/ CleanupClients
  \/ PingIntervalTick
  \/ \E c \in Clients : CheckAlive(c)
  \/ \E c \in Clients : Pong(c)

SpecProbe == Init /\ [][NextProbe]_vars

\* The registry as the server runs it: nothing but the liveness timer looks
\* after idle sessions, which listen to the controller's events.
NextTimer ==
  \/ \E c \in Clients : AddSocket(c)
  \/ \E c \in Clients : SocketClosed(c)
  \/ CleanupClients
  \/ PingIntervalTick
  \/ \E c \in Clients : Pong(c)
  \/ \E c \in Clients : ReceiveStartListening(c)
  \/ ControllerEvent

SpecTimer == Init /\ [][NextTimer]_vars

\* Sessions that subscribe to the controller's events, with or without
\* success, while sockets come and go and the registry sweeps.
NextListen ==
  \/ \E c \in Clients : AddSocket(c)
  \/ \E c \in Clients : SocketClosed(c)
  \/ CleanupClients
  \/ PingIntervalTick
  \/ \E c \in Clients : ReceiveStartListening(c)
  \/ \E c \in Clients, k \in {"zwave", "other"} :
       ReceiveStartListeningThrows(c, k)
  \/ ControllerEvent

SpecListen == Init /\ [][NextListen]_vars

\* Sessions that subscribe to the driver's logs and unsubscribe, send a frame
\* that does not parse, or go away, under the registry's two sweeps.
NextLogs ==
  \/ \E c \in Clients : AddSocket(c)
  \/ \E c \in Clients : SocketClosed(c)
  \/ CleanupClients
  \/ PingIntervalTick
  \/ \E c \in Clients : ReceiveUnparsable(c)
  \/ \E c \in Clients : ReceiveStartListeningLogs(c)
  \/ \E c \in Clients : ReceiveStopListeningLogs(c)
  \/ RunMicrotask

SpecLogs == Init /\ [][NextLogs]_vars

\* Every way a frame of a session can fail: it does not parse, names an
\* unknown command, asks for an unsupported schema, starts an inclusion while
\* an exchange is pending, answers an exchange that is not in progress, or the
\* controller rejects the awaited operation with a ZWaveError or another error.
\* Inclusions are started by session 1.
NextFailures ==
  \/ \E c \in Clients : AddSocket(c)
  \/ \E c \in Clients : SocketClosed(c)
  \/ \E c \in Clients : ReceiveUnparsable(c)
  \/ \E c \in Clients : ReceiveSetApiSchema(c, maxSchemaVersion + 1)
  \/ \E c \in Clients : ReceiveUnknown(c)
  \/ ReceiveBeginInclusion(1, 1)
  \/ \E c \in Clients : ReceiveGrantSecurityClasses(c, 1)
  \/ RunMicrotask
  \/ \E o \in ops, r \in {"zwave", "other"} : ControllerSettles(o, r)
  \/ \E o \in ops : GrantSecurityClassesCallback(o)

SpecFailures == Init /\ [][NextFailures]_vars

\* Log forwarding: sessions subscribe to the driver's logs and unsubscribe, or
\* go away, and the driver logs items whose delivery may fail.
NextLogItems ==
  \/ \E c \in Clients : AddSocket(c)
  \/ \E c \in Clients : SocketClosed(c)
  \/ CleanupClients
  \/ \E c \in Clients : ReceiveStartListeningLogs(c)
  \/ \E c \in Clients : ReceiveStopListeningLogs(c)
  \/ RunMicrotask
  \/ \E throwing \in SUBSET Clients : LogItem(throwing)

SpecLogItems == Init /\ [][NextLogItems]_vars

\* The registry with sessions that subscribe to logs and go away, its two
\* sweeps, and teardown at any time and any number of times.
NextTeardown ==
  \/ \E c \in Clients : AddSocket(c)
  \/ \E c \in Clients : SocketClosed(c)
  \/ CleanupClients
  \/ PingIntervalTick
  \/ \E c \in Clients : ReceiveStartListeningLogs(c)
  \/ RunMicrotask
  \/ Disconnect

SpecTeardown == Init /\ [][NextTeardown]_vars

\* The process from the start of the driver to its exit, with sessions that
\* connect while the server listens and go away.
NextProcess ==
  \/ StartResolves
  \/ StartRejects
  \/ DriverReady
  \/ \E c \in Clients : Connection(c)
  \/ \E c \in Clients : Running /\ SocketClosed(c)
  \/ Running /\ CleanupClients
  \/ \E c \in Clients : Running /\ ReceiveStartListening(c)
  \/ Signal
  \/ \E outcome \in {"uncaught", "swallowed"} : DriverFailed(outcome)
  \/ ServerClosed
  \/ DriverDestroyed

SpecProcess == Init /\ [][NextProcess]_vars

\* Commands that suspend and commands that do not: session 1 starts
\* inclusions, which await the controller and its prompts, while both sessions
\* send answers and commands that are answered at once.
NextInterleave ==
  \/ \E c \in Clients : AddSocket(c)
  \/ ReceiveBeginInclusion(1, 1)
  \/ \E c \in Clients : ReceiveUnknown(c)
  \/ \E c \in Clients : ReceiveGrantSecurityClasses(c, 1)
  \/ RunMicrotask
  \/ \E o \in ops : GrantSecurityClassesCallback(o)
  \/ \E o \in ops : ControllerSettles(o, "ok")
  \/ \E o \in ops : FlowEnds(o)

SpecInterleave == Init /\ [][NextInterleave]_vars

\* Interactive flows started by either session, with prompts from the
\* controller and answers from either session.
NextPrompt ==
  \/ \E c \in Clients : AddSocket(c)
  \/ \E c \in Clients : ReceiveBeginInclusion(c, 1)
  \/ \E c \in Clients, v \in AnswerValues : ReceiveGrantSecurityClasses(c, v)
  \/ \E c \in Clients, v \in AnswerValues : ReceiveValidateDSKAndEnterPIN(c, v)
  \/ RunMicrotask
  \/ \E o \in ops : GrantSecurityClassesCallback(o)
  \/ \E o \in ops : ValidateDSKAndEnterPINCallback(o)

SpecPrompt == Init /\ [][NextPrompt]_vars

\* The registry's bookkeeping of its sessions: sockets connect, are closed by
\* the server over an unparsable frame or by teardown, and go away, and the
\* two sweeps run. The cleanup timeout, once set, fires.
NextCleanup ==
  \/ \E c \in Clients : AddSocket(c)
  \/ \E c \in Clients : SocketClosed(c)
  \/ \E c \in Clients : ReceiveUnparsable(c)
  \/ \E c \in Clients : ReceiveStartListening(c)
  \/ CleanupClients
  \/ PingIntervalTick
  \/ Disconnect

LiveCleanup == Init /\ [][NextCleanup]_vars /\ WF_vars(CleanupClients)

SpecCleanup == Init /\ [][NextCleanup]_vars

\* The log forwarder and the driver's log level: sessions subscribe to logs
\* and unsubscribe, change the level, close and are swept, and the
\* reconciliation is called at any time.
NextLevels ==
  \/ \E c \in Clients : AddSocket(c)
  \/ \E c \in Clients : SocketClosed(c)
  \/ CleanupClients
  \/ \E c \in Clients : ReceiveStartListeningLogs(c)
  \/ \E c \in Clients : ReceiveStopListeningLogs(c)
  \/ \E c \in Clients, level \in LogLevels : ReceiveUpdateLogConfig(c, level)
  \/ restartLoggingEventForwarderIfNeeded
  \/ RunMicrotask

SpecLevels == Init /\ [][NextLevels]_vars

\* Two interactive flows at once: session 1 starts an inclusion and a
\* replacement, the controller prompts for each, aborts either or lets it
\* end, and either session answers.
NextOverlap ==
  \/ \E c \in Clients : AddSocket(c)
  \/ ReceiveBeginInclusion(1, 1)
  \/ ReceiveReplaceFailedNode(1, 1)
  \/ \E c \in Clients : ReceiveGrantSecurityClasses(c, 1)
  \/ ReceiveValidateDSKAndEnterPIN(2, 1)
  \/ RunMicrotask
  \/ \E o \in ops : GrantSecurityClassesCallback(o)
  \/ \E o \in ops : ValidateDSKAndEnterPINCallback(o)
  \/ \E o \in ops : Abort(o)
  \/ \E o \in ops : FlowEnds(o)

SpecOverlap == Init /\ [][NextOverlap]_vars

\* An interactive flow whose initiator may go away: session 1 starts an
\* inclusion, the controller prompts, any session closes, is swept or torn
\* down, either session answers, and the controller may abort.
NextOrphan ==
  \/ \E c \in Clients : AddSocket(c)
  \/ \E c \in Clients : SocketClosed(c)
  \/ CleanupClients
  \/ PingIntervalTick
  \/ Disconnect
  \/ ReceiveBeginInclusion(1, 1)
  \/ \E c \in Clients : ReceiveGrantSecurityClasses(c, 1)
  \/ RunMicrotask
  \/ \E o \in ops : GrantSecurityClassesCallback(o)
  \/ \E o \in ops : Abort(o)

SpecOrphan == Init /\ [][NextOrphan]_vars

\* ------------------------------------------------------------ properties
AlreadyInProgress(c) ==
  <<ResultTask(c, ResultError(NextId(c), "inclusion_already_in_progress", ""))>>

\* C1: whenever a begin_inclusion or a replace_failed_node command is handled
\* while either channel holds a pending promise, the command fails with an
\* inclusion-already-in-progress conflict and the controller is not invoked.
C1_StartWhileChannelPendingConflicts ==
  [][\A c \in Clients :
       (/\ InclusionInProgress
        /\ ReceiveBeginInclusion(c, 1) \/ ReceiveReplaceFailedNode(c, 1))
       => /\ ops' = ops
          /\ microtasks' = AlreadyInProgress(c)]_vars

\* An interactive inclusion has been handed to the controller and its flow
\* has not ended: whatever the channels hold.
FlowInProgress == \E o \in ops : o.callbacks /\ o.phase # "ended"

\* C2: a begin_inclusion handled while another interactive inclusion is under
\* way, in any of its phases (before the grant prompt, between the prompts,
\* or while a prompt is pending), fails with the conflict and is not passed
\* to the controller.
C2_SecondBeginInclusionConflicts ==
  [][\A c \in Clients :
       (FlowInProgress /\ ReceiveBeginInclusion(c, 1))
       => /\ ops' = ops
          /\ microtasks' = AlreadyInProgress(c)]_vars

\* A deferred d held by channel ch is pending with a controller operation
\* waiting on it, or was consumed in this very macrotask and its finally
\* callback is queued ahead of every further command.
ChannelHolds(ch, d) ==
  d # None =>
    IF deferreds[d].state = "pending"
    THEN \E o \in ops : \/ ch = "grant" /\ o.grantP = d /\ o.phase = "grant"
                        \/ /\ ch = "validate" /\ o.validateP = d
                           /\ o.phase = "validate"
    ELSE \E k \in DOMAIN microtasks : microtasks[k] = FinallyTask(ch, d)

ChannelsHoldPending ==
  /\ ChannelHolds("grant", grantSecurityClassesPromise)
  /\ ChannelHolds("validate", validateDSKAndEnterPinPromise)

\* What an answer with value v from session c does to the deferred d its
\* channel ch holds: with a deferred in the channel, that one deferred goes
\* from pending to resolved with exactly v and the answerer's success is
\* queued behind the channel's finally callback; with the channel Idle, no
\* deferred changes and the phase error is queued.
AnswerResolves(c, v, ch, d, phase) ==
  IF d # None
  THEN /\ deferreds[d].state = "pending"
       /\ deferreds' =
            [deferreds EXCEPT ![d] = [state |-> "resolved", value |-> v]]
       /\ microtasks' = <<FinallyTask(ch, d),
                          ResultTask(c, ResultSuccess(NextId(c), ""))>>
  ELSE /\ deferreds' = deferreds
       /\ microtasks' =
            <<ResultTask(c, ResultError(NextId(c),
                              "inclusion_phase_not_in_progress", phase))>>

\* C3: an answer succeeds only when its channel is Waiting, and then resolves
\* exactly the one pending exchange with exactly the supplied value; once the
\* reactions have run the channel no longer holds the consumed exchange, so a
\* second answer to it gets the phase error and reaches no deferred.
C3_AnswerResolvesOnePendingExchange ==
  [][/\ \A c \in Clients, v \in AnswerValues :
          commands'[c] # commands[c] =>          \* c's command is handled
          /\ ReceiveGrantSecurityClasses(c, v) =>
               AnswerResolves(c, v, "grant", grantSecurityClassesPromise,
                              "grantSecurityClassesPromise")
          /\ ReceiveValidateDSKAndEnterPIN(c, v) =>
               AnswerResolves(c, v, "validate",
                              validateDSKAndEnterPinPromise,
                              "validateDSKAndEnterPinPromise")
     /\ ChannelsHoldPending']_vars

\* The first answer (value 2) resolved the only exchange, and a second grant
\* answer has just been refused.
C3_SecondAnswerRefused ==
  /\ Len(deferreds) = 1
  /\ deferreds[1] = [state |-> "resolved", value |-> 2]
  /\ grantSecurityClassesPromise = None
  /\ \E k \in DOMAIN sent :
       /\ sent[k].errorCode = "inclusion_phase_not_in_progress"
       /\ sent[k].phase = "grantSecurityClassesPromise"

\* The phase error for the command session c is sending.
PhaseError(c, phase) ==
  ResultError(NextId(c), "inclusion_phase_not_in_progress", phase)

\* C4: an answer handled while its channel is Idle queues exactly one result
\* for the answerer, the phase error naming that channel, and changes neither
\* channel, no deferred, no operation and no session; sending that result
\* changes none of them either.
C4_AnswerWhileIdleChangesNothing ==
  [][/\ \A c \in Clients, v \in AnswerValues :
          commands'[c] # commands[c] =>          \* c's command is handled
          /\ (grantSecurityClassesPromise = None
              /\ ReceiveGrantSecurityClasses(c, v))
             => /\ microtasks' = <<ResultTask(c,
                      PhaseError(c, "grantSecurityClassesPromise"))>>
                /\ UNCHANGED <<channelVars, deferreds, ops, sessionVars>>
          /\ (validateDSKAndEnterPinPromise = None
              /\ ReceiveValidateDSKAndEnterPIN(c, v))
             => /\ microtasks' = <<ResultTask(c,
                      PhaseError(c, "validateDSKAndEnterPinPromise"))>>
                /\ UNCHANGED <<channelVars, deferreds, ops, sessionVars>>
     /\ (/\ microtasks # <<>>
         /\ Head(microtasks).kind = "result"
         /\ Head(microtasks).frame.errorCode
              = "inclusion_phase_not_in_progress"
         /\ RunMicrotask)
        => /\ sent' = <<sendData(Head(microtasks).c, Head(microtasks).frame)>>
           /\ UNCHANGED <<channelVars, deferreds, ops, sessionVars>>]_vars

\* A validate answer was refused while a grant exchange is pending: the
\* pending exchange is untouched.
C4_RefusedWhileOtherChannelWaits ==
  /\ grantSecurityClassesPromise # None
  /\ deferreds[grantSecurityClassesPromise].state = "pending"
  /\ validateDSKAndEnterPinPromise = None
  /\ \E k \in DOMAIN sent :
       /\ sent[k].errorCode = "inclusion_phase_not_in_progress"
       /\ sent[k].phase = "validateDSKAndEnterPinPromise"
       /\ sent[k].delivered

\* C5: an abort rejects every Waiting channel, returns it to Idle and sends
\* "inclusion aborted" to the initiator's session; with both channels Idle it
\* is a no-op and sends no event.
C5_AbortWithIdleChannelsIsNoOp ==
  [][\A o \in ops :
       Abort(o) =>
         IF InclusionInProgress
         THEN /\ sent' = <<sendData(o.client, EventFrame("inclusion aborted"))>>
              /\ \A d \in {grantSecurityClassesPromise,
                           validateDSKAndEnterPinPromise} \ {None} :
                   deferreds'[d].state = "rejected"
         ELSE /\ sent' = <<>>
              /\ UNCHANGED <<channelVars, deferreds, microtasks>>]_vars

Pending(c, i) ==
  \/ \E o \in ops : o.client = c /\ o.messageId = i /\ o.cmd = "awaiting"
  \/ \E k \in DOMAIN microtasks :
       /\ microtasks[k].kind = "result"
       /\ microtasks[k].c = c
       /\ microtasks[k].frame.messageId = i

\* C7: every command a session submitted has exactly one result frame on
\* that session with its messageId once its processing is over, and none
\* before; a result frame is only ever sent for a command its addressee
\* submitted, so no failure is lost and none is reported twice.
C7_ExactlyOneResultPerCommand ==
  /\ \A c \in Clients :
       /\ Len(results[c]) = commands[c]
       /\ \A i \in 1..commands[c] :
            results[c][i] = IF Pending(c, i) THEN 0 ELSE 1
  /\ \A k \in DOMAIN sent :
       sent[k].type = "result" => sent[k].messageId \in 1..commands[sent[k].to]

\* A controller operation rejected after the handler was suspended, and the
\* failure has just been sent as that command's only result.
C7_RejectionAfterAwaitReported ==
  \E k \in DOMAIN sent :
    /\ sent[k].type = "result"
    /\ sent[k].errorCode = "zwave_error"
    /\ results[sent[k].to][sent[k].messageId] = 1

\* C8: every session's schemaVersion lies within the supported range.
C8_SchemaVersionInRange ==
  \A c \in Clients :
    minSchemaVersion <= schemaVersion[c] /\ schemaVersion[c] <= maxSchemaVersion

\* C9: an out-of-range set_api_schema sends the schema-incompatible failure,
\* leaves the connection as it is and leaves schemaVersion at the last
\* successful value; an in-range one sends an empty success and becomes the
\* session's schemaVersion.
C9_SetApiSchemaLastSuccessfulWins ==
  [][\A c \in Clients, v \in SchemaInputs :
       ReceiveSetApiSchema(c, v) =>
         /\ conn' = conn
         /\ IF v < minSchemaVersion \/ v > maxSchemaVersion
            THEN /\ sent' = <<sendData(c, ResultError(NextId(c),
                                          "schema_incompatible", ""))>>
                 /\ schemaVersion'[c] = schemaVersion[c]
            ELSE /\ sent' = <<sendData(c, ResultSuccess(NextId(c), ""))>>
                 /\ schemaVersion'[c] = v]_vars

\* C10: a session that has connected has the version frame as its first
\* frame and has been sent exactly one; a session that has not connected
\* has been sent nothing.
C10_VersionFrameFirstAndOnce ==
  \A c \in Clients :
    IF conn[c] = "none"
    THEN firstFrame[c] = "" /\ versionFrames[c] = 0
    ELSE firstFrame[c] = "version" /\ versionFrames[c] = 1

\* An event or a result has just been sent to a session whose first and only
\* version frame went out earlier.
C10_LaterFrameAfterVersion ==
  \E k \in DOMAIN sent :
    /\ sent[k].type \in {"event", "result"}
    /\ sent[k].delivered
    /\ firstFrame[sent[k].to] = "version"
    /\ versionFrames[sent[k].to] = 1

\* Session c is in the registry's list.
Registered(c) == \E i \in DOMAIN clients : clients[i] = c

\* C21: a close event leaves the list as it is and leaves exactly one cleanup
\* timeout pending, however many close events came before it; a timeout is
\* pending exactly while cleanupScheduled is set; the sweep leaves only
\* connected sessions in the list; and every registered session whose socket
\* has closed is eventually out of the list.
C21_CleanupScheduledAndCoalesced ==
  /\ [][/\ cleanupTimers' <= 1
        /\ cleanupScheduled' <=> cleanupTimers' = 1
        /\ \A c \in Clients :
             (conn[c] # "closed" /\ conn'[c] = "closed") =>
               clients' = clients /\ cleanupTimers' = 1
        /\ cleanupTimers' < cleanupTimers =>
             \A i \in DOMAIN clients' : conn'[clients'[i]] = "open"
       ]_vars
  /\ \A c \in Clients : (conn[c] = "closed" /\ Registered(c)) ~> ~Registered(c)

\* Both sessions have closed and are still in the list, with one sweep pending.
C21_TwoClosesOneSweep ==
  /\ conn[1] = "closed" /\ conn[2] = "closed"
  /\ clients = <<1, 2>>
  /\ cleanupTimers = 1

\* C22: at most one ping timer runs, and one runs exactly while pingInterval
\* is set; the event forwarder has subscribed at most once, and once exactly
\* when it exists; after a socket is added both exist; and neither a close
\* event, nor the sweep, nor a tick stops or restarts either of them, however
\* few sessions are left.
C22_OneTimerOneSubscription ==
  /\ [](/\ pingTimers <= 1 /\ (pingInterval <=> pingTimers = 1)
        /\ subscriptions <= 1 /\ (eventForwarder <=> subscriptions = 1))
  /\ [][/\ Len(clients') > Len(clients) => pingTimers' = 1 /\ subscriptions' = 1
        /\ ((\E c \in Clients : SocketClosed(c)) \/ CleanupClients \/ PingIntervalTick) =>
             UNCHANGED <<pingInterval, eventForwarder, pingTimers, subscriptions>>
        /\ subscriptions' >= subscriptions
       ]_vars

\* Every session has closed and been swept, nothing is pending, and the timer
\* and the forwarder are still there.
C22_EmptyRegistryTimerRunning ==
  /\ clients = <<>> /\ cleanupTimers = 0
  /\ conn[1] = "closed" /\ conn[2] = "closed"
  /\ pingTimers = 1 /\ subscriptions = 1

\* C23: a reconciliation that finds a transport attached at a level other
\* than the driver's takes it off the list and attaches exactly one new
\* transport at the driver's level; one that finds the levels equal, or no
\* transport attached, changes nothing; and the transports list holds the
\* forwarder's current transport and no other transport of the server, so at
\* most one.
C23_ReconciliationReplacesOneSink ==
  /\ [][restartLoggingEventForwarderIfNeeded =>
          IF logging.sink # NoSink /\ logging.sink.level # logging.level
          THEN /\ logging'.sink # NoSink
               /\ logging'.sink.id # logging.sink.id
               /\ logging'.sink.level = logging.level
               /\ logging'.transports = {logging'.sink}
               /\ logging'.level = logging.level
          ELSE logging' = logging
       ]_vars
  /\ [](/\ Cardinality(logging.transports) <= 1
        /\ logging.transports = IF logging.sink = NoSink THEN {} ELSE {logging.sink}
        /\ serverTransport <=> logging.sink # NoSink)

\* The transport attached now is the second one and carries the level the
\* driver was changed to.
C23_SinkReplacedAtNewLevel ==
  /\ logging.sink = [id |-> 2, level |-> "debug"]
  /\ logging.level = "debug"
  /\ logging.transports = {logging.sink}

\* The deferred whose finally callback is the next reaction to run, if any.
FinallyOf(ch) ==
  IF microtasks # <<>> /\ Head(microtasks).kind = "finally"
     /\ Head(microtasks).ch = ch
  THEN Head(microtasks).d ELSE None

\* C24: a channel that holds a deferred is emptied only by the finally
\* callback of that same deferred; the abort of a flow leaves a channel that
\* holds another flow's deferred, and that deferred, as they were; and an
\* answer command settles the deferred its channel holds at that moment and
\* no other.
C24_SettlementClearsOnlyOwnDeferred ==
  [][/\ (grantSecurityClassesPromise # None /\ grantSecurityClassesPromise' = None) =>
          FinallyOf("grant") = grantSecurityClassesPromise
     /\ (validateDSKAndEnterPinPromise # None /\ validateDSKAndEnterPinPromise' = None) =>
          FinallyOf("validate") = validateDSKAndEnterPinPromise
     /\ \A o \in ops : Abort(o) =>
          /\ (grantSecurityClassesPromise \notin {None, o.grantP} =>
                deferreds'[grantSecurityClassesPromise] =
                  deferreds[grantSecurityClassesPromise])
          /\ (validateDSKAndEnterPinPromise \notin {None, o.validateP} =>
                deferreds'[validateDSKAndEnterPinPromise] =
                  deferreds[validateDSKAndEnterPinPromise])
     /\ \A c \in Clients, v \in AnswerValues :
          /\ ReceiveGrantSecurityClasses(c, v) =>
               \A d \in DOMAIN deferreds :
                 IF d = grantSecurityClassesPromise /\ deferreds[d].state = "pending"
                 THEN deferreds'[d] = [state |-> "resolved", value |-> v]
                 ELSE deferreds'[d] = deferreds[d]
          /\ ReceiveValidateDSKAndEnterPIN(c, v) =>
               \A d \in DOMAIN deferreds :
                 IF d = validateDSKAndEnterPinPromise /\ deferreds[d].state = "pending"
                 THEN deferreds'[d] = [state |-> "resolved", value |-> v]
                 ELSE deferreds'[d] = deferreds[d]
    ]_vars

\* The earlier flow was aborted and its finally callback has run, and the
\* channel still holds the later flow's pending deferred.
C24_LateAbortLeftNewerPending ==
  /\ Len(deferreds) = 2
  /\ deferreds[1].state = "rejected"
  /\ deferreds[2].state = "pending"
  /\ grantSecurityClassesPromise = 2
  /\ microtasks = <<>>

\* C25: a step in which a socket stops being open or a session leaves the
\* registry's list changes neither coordinator channel, no deferred and no
\* operation; and while a channel holds a pending deferred whose initiator is
\* no longer in the list, an answer command of any session resolves it and
\* the controller's abort rejects it.
C25_ExchangeOutlivesInitiator ==
  [][/\ ((\E c \in Clients : conn[c] = "open" /\ conn'[c] # "open")
         \/ (\E c \in Clients : Registered(c) /\ ~Registered(c)'))
          => UNCHANGED <<channelVars, deferreds, ops>>
     /\ \A o \in ops :
          (/\ grantSecurityClassesPromise # None
           /\ o.grantP = grantSecurityClassesPromise
           /\ deferreds[o.grantP].state = "pending"
           /\ ~Registered(o.client)) =>
            /\ \A c \in Clients :
                 ReceiveGrantSecurityClasses(c, 1) =>
                   deferreds'[o.grantP].state = "resolved"
            /\ Abort(o) => deferreds'[o.grantP].state = "rejected"
    ]_vars

\* The initiator has closed and left the list, the other session is
\* connected, and the exchange is still pending in the channel.
C25_PendingAfterInitiatorRemoved ==
  /\ conn[1] = "closed" /\ ~Registered(1)
  /\ conn[2] = "open" /\ Registered(2)
  /\ grantSecurityClassesPromise # None
  /\ deferreds[grantSecurityClassesPromise].state = "pending"
  /\ \E o \in ops : o.client = 1 /\ o.grantP = grantSecurityClassesPromise

\* C11: at each tick of the registry's liveness timer a registered, connected
\* session is probed, and one whose last probe is still unacknowledged is
\* disconnected instead.
C11_TimerProbesAndDisconnects ==
  [][PingIntervalTick =>
       \A i \in DOMAIN clients :
         isConnected(clients[i]) =>
           IF outstandingPing[clients[i]]
           THEN conn'[clients[i]] # "open"
           ELSE \E k \in DOMAIN pinged' : pinged'[k] = clients[i]
    ]_vars

\* C13: the log forwarder's transport is attached to the driver's logging if
\* and only if at least one registered session has receiveLogs set.
C13_SinkAttachedIffLoggingSession ==
  serverTransport <=> \E i \in DOMAIN clients : receiveLogs[clients[i]]

\* C15: when socket.send throws for one recipient of a forwarded log item,
\* the exception does not reach the driver that logged the item, and every
\* other registered session that wants logs and is connected is still handed
\* the item.
C15_DeliveryFailureContained ==
  [][failed' # {} =>
       /\ ~escaped'
       /\ \A i \in DOMAIN clients :
            (receiveLogs[clients[i]] /\ isConnected(clients[i])
               /\ clients[i] \notin failed') =>
            \E k \in DOMAIN sent' :
              /\ sent'[k].to = clients[i]
              /\ sent'[k].event = "logging"
    ]_vars

\* The registry is torn down: no timer, no session, no log transport.
TornDown == ~pingInterval /\ clients = <<>> /\ ~serverTransport

\* C16: ClientsController.disconnect leaves the registry torn down (ping timer
\* stopped, list empty, log forwarder stopped) with every session that was
\* registered no longer connected; called on a registry that is torn down, it
\* changes nothing.
C16_TeardownCompleteAndIdempotent ==
  [][Disconnect =>
       /\ TornDown'
       /\ \A i \in DOMAIN clients : conn'[clients[i]] # "open"
       /\ TornDown =>
            UNCHANGED <<conn, commands, schemaVersion, receiveEvents,
                        receiveLogs, registryVars, channelVars, deferreds,
                        ops, microtasks, emitted, probeVars, proc>>
    ]_vars

\* Teardown found two registered, connected sessions, one subscribed to logs
\* with the transport attached, and the timer running.
C16_TornDownWithSessions ==
  /\ TornDown
  /\ conn[1] = "closing" /\ conn[2] = "closing"
  /\ receiveLogs[1]
  /\ ~cleanupScheduled

\* C17: once the driver has failed fatally the shutdown is under way, whenever
\* that happened; the driver is destroyed only after the server released its
\* port; a process that ended on a shutdown request that its handler received,
\* other than a second one, has released the port and destroyed the driver;
\* and after a fatal failure its exit code is 1.
C17_ShutdownOrderedOnEveryRequest ==
  /\ proc.fatal => proc.closing
  /\ proc.driver # "up" => proc.server \in {"none", "closed"}
  /\ (proc.exit = "exited"
        /\ proc.how \notin {"second request", "start failed", "killed"})
       => proc.driver = "destroyed" /\ proc.server \in {"none", "closed"}
  /\ (proc.exit = "exited" /\ proc.fatal
        /\ proc.how \notin {"second request", "killed"})
       => proc.exitCode = "1"

Prompts == {"grant security classes", "validate dsk and enter pin"}

\* The operation whose callback the step just taken invoked.
Prompted(o) ==
  /\ o \in ops
  /\ \E n \in ops' : /\ n.client = o.client
                     /\ n.messageId = o.messageId
                     /\ n.phase # o.phase
                     /\ n.phase \in {"grant", "validate"}

\* C19: a step that sends a prompt event sends that one frame, to the session
\* that started the operation whose callback was invoked; and a step that
\* handles the answer of any session to a pending exchange resolves the
\* deferred the channel holds with the answer's value and queues the success
\* result of the answer for the answering session.
C19_PromptToInitiatorAnswerFromAnyone ==
  [][/\ (\E i \in DOMAIN sent' : sent'[i].event \in Prompts) =>
          /\ Len(sent') = 1
          /\ \E o \in ops : Prompted(o) /\ sent'[1].to = o.client
     /\ \A c \in Clients :
          (commands'[c] # commands[c] /\ deferreds' # deferreds) =>
            \E d \in DOMAIN deferreds :
              /\ d \in {grantSecurityClassesPromise,
                        validateDSKAndEnterPinPromise}
              /\ deferreds[d].state = "pending"
              /\ deferreds'[d].state = "resolved"
              /\ deferreds'[d].value \in AnswerValues
              /\ microtasks'[Len(microtasks')] =
                   ResultTask(c, ResultSuccess(NextId(c), ""))
    ]_vars

\* Session 1 started the inclusion and was prompted; session 2 answered with
\* value 2 and got the result of its answer, session 1 none yet.
C19_OtherSessionAnswered ==
  /\ \E o \in ops : o.client = 1 /\ o.phase = "grant"
                    /\ deferreds[o.grantP] = [state |-> "resolved", value |-> 2]
  /\ sent = <<sendData(2, ResultSuccess(1, ""))>>
  /\ results[1] = <<0>>

\* The step just taken reports a failed command to session c, or queues the
\* promise reaction that will.
FailureTo(c) ==
  \/ \E i \in DOMAIN sent' :
       sent'[i].to = c /\ sent'[i].type = "result" /\ ~sent'[i].success
  \/ /\ microtasks = <<>>
     /\ \E i \in DOMAIN microtasks' :
          /\ microtasks'[i].kind = "result"
          /\ microtasks'[i].c = c
          /\ ~microtasks'[i].frame.success

\* C14: a session's socket starts closing only in a step that handles a frame
\* that does not parse, for which no result is sent or queued; a step that
\* reports a failed command, of whatever kind, closes no connection and leaves
\* the state of every other session as it was.
C14_OnlyUnparsableFrameCloses ==
  [][\A c \in Clients :
       /\ (conn[c] = "open" /\ conn'[c] = "closing") =>
            /\ sent' = <<>>
            /\ microtasks' = microtasks
            /\ commands' = commands
       /\ FailureTo(c) =>
            /\ conn' = conn
            /\ \A b \in Clients \ {c} :
                 /\ commands'[b] = commands[b]
                 /\ schemaVersion'[b] = schemaVersion[b]
                 /\ receiveEvents'[b] = receiveEvents[b]
                 /\ receiveLogs'[b] = receiveLogs[b]
                 /\ outstandingPing'[b] = outstandingPing[b]
    ]_vars

\* Session 1 was just told of an unexpected error of its command and is still
\* connected, while session 2 lost its connection over an unparsable frame
\* without a result.
C14_FailureReportedStillOpen ==
  /\ sent = <<sendData(1, ResultError(1, "unknown_error", ""))>>
  /\ isConnected(1)
  /\ conn[2] = "closing" /\ commands[2] = 0 /\ firstFrame[2] = "version"

\* The frames of the step just taken that went to session c.
EventsTo(c) ==
  SelectSeq(sent', LAMBDA f : f.to = c /\ f.type = "event"
                                /\ f.event = "controller event")
SnapshotTo(c) ==
  SelectSeq(sent', LAMBDA f : f.to = c /\ f.type = "result" /\ f.success
                                /\ f.phase = "state")

C20_CheckAliveContract ==
  [][\A c \in Clients :
       /\ outstandingPing'[c] <=> checksSincePong'[c] >= 1
       /\ (checksSincePong[c] = 0 /\ checksSincePong'[c] = 1) =>
            pinged' = <<c>> /\ conn'[c] = conn[c]
       /\ (checksSincePong[c] = 1 /\ checksSincePong'[c] = 2) =>
            pinged' = <<>> /\ conn'[c] # "open"
       /\ (\E i \in DOMAIN pinged' : pinged'[i] = c) =>
            ~outstandingPing[c] /\ pinged' = <<c>> /\ conn' = conn
       /\ (conn[c] = "open" /\ conn'[c] = "closing") =>
            checksSincePong[c] = 1 /\ checksSincePong'[c] = 2
       /\ checksSincePong'[c] = 2 => conn'[c] # "open"
    ]_vars

\* Two calls of checkAlive on an open session with a pong in between: the
\* session is open with one probe outstanding; and two with none: it is closing.
C20_SecondCheckDisconnects ==
  /\ checksSincePong[1] = 2 /\ conn[1] = "closing"
  /\ checksSincePong[2] = 1 /\ conn[2] = "open" /\ outstandingPing[2]

====
